---- MODULE Spec2Model ----
(***************************************************************************)
(* Vote casting and tallying of the voting API (handlers/ballot.go,        *)
(* VoteHandler) over the PostgreSQL schema of database/schema.sql.         *)
(*                                                                         *)
(* Every request is a goroutine (a process of Procs) that runs the         *)
(* handler statement by statement; each SQL statement is one atomic step   *)
(* against the shared store.  The store is PostgreSQL at its default       *)
(* isolation level READ COMMITTED: a SELECT reads the committed rows, an   *)
(* UPDATE takes the row's lock (waiting while another transaction holds    *)
(* it) and then works on the latest committed version, an INSERT waits for *)
(* an in-flight insert of the same unique key, and a transaction's writes  *)
(* become visible together at COMMIT or are discarded at ROLLBACK.         *)
(***************************************************************************)
EXTENDS Integers, Sequences, FiniteSets, TLC

\* ---------------------------------------------------------------- bounds
MaxCalls == 2                   \* requests started in one behaviour

Procs == {1, 2}                 \* concurrent request goroutines
Users == {1, 2}                 \* authenticated user ids
Ballots == {1, 2, 3}            \* rows of ballots
ActiveBallots == {1, 2}         \* ballots with is_active = true
Items == {1, 2, 3}              \* rows of ballot_items
ItemBallot == (1 :> 1) @@ (2 :> 1) @@ (3 :> 2)  \* ballot_items.ballot_id
ReqBallots == Ballots \cup {9}  \* ballot ids a request may name (9: no such row)
ReqItems == Items \cup {9}      \* option ids a request may name (9: no such row)

ItemsOf(b) == {o \in Items : ItemBallot[o] = b}

\* ----------------------------------------------------------------- state
VARIABLES
    votes,                  \* committed rows of votes
    vote_count,             \* committed ballot_items.vote_count, per item
    nextVoteId,             \* the SERIAL sequence of votes.id
    pc,                     \* per process: the statement the handler is at
    req,                    \* per process: userID, ballotID, ballotItemID
    existingVoteID,         \* per process: local of Vote (0: not scanned)
    existingBallotItemID,   \* per process: local of Vote (0: not scanned)
    txLocked,               \* per process: ballot_items rows its tx has written
    txCount,                \* per process: its tx's version of vote_count
    txVote,                 \* per process: its tx's pending write to votes
    resp,                   \* per process: the last HTTP response
    body,                   \* per process: the data of the last response
    cause,                  \* per process: why the last call failed (history)
    entry,                  \* per process: what was committed at handler entry (history)
    log,                    \* committed casts, in commit order (history)
    ncalls,                 \* requests started so far
    is_active,              \* the ballots whose is_active is true
    seed                    \* the database the seed script fills, and its run

vars == <<votes, vote_count, nextVoteId, pc, req, existingVoteID,
          existingBallotItemID, txLocked, txCount, txVote, resp, body,
          cause, entry, log, ncalls, is_active, seed>>

NoWrite == [kind |-> "none", id |-> 0, user_id |-> 0, ballot_id |-> 0, ballot_item_id |-> 0]
NoReq == [op |-> "", user |-> 0, ballot |-> 0, item |-> 0,
          ballot_item_id |-> 0, option_id |-> 0]
NoResp == [status |-> 0, msg |-> ""]
NoVote == [id |-> 0, user_id |-> 0, ballot_id |-> 0, ballot_item_id |-> 0, option_id |-> 0]
NoBody == [ballot_id |-> 0, vote |-> NoVote, results |-> <<>>, total_votes |-> 0]
NoEntry == [held |-> 0, commits |-> 0]
ZeroCounts == [o \in Items |-> 0]

\* The tables of a database nothing was seeded into.
NoTables == [users |-> {}, ballots |-> {}, ballot_items |-> {}, votes |-> {}]

\* The seed script not running, on an empty database.
NoSeed ==
    [pc |-> "idle", started |-> 0, completed |-> 0, ok |-> FALSE,
     tables |-> NoTables, nextBallot |-> 1, nextItem |-> 1,
     todo |-> <<>>, i |-> 0, first |-> NoTables]

\* A behaviour starts from the empty tables, or after two first votes have
\* been committed: user 1's for item 1 and user 2's for item 2 of ballot 1.
EarlierVotes ==
    {[id |-> 1, user_id |-> 1, ballot_id |-> 1, ballot_item_id |-> 1],
     [id |-> 2, user_id |-> 2, ballot_id |-> 1, ballot_item_id |-> 2]}

Init ==
    /\ votes \in {{}, EarlierVotes}
    /\ vote_count = [o \in Items |-> Cardinality({v \in votes : v.ballot_item_id = o})]
    /\ nextVoteId = Cardinality(votes) + 1
    /\ pc = [p \in Procs |-> "idle"]
    /\ req = [p \in Procs |-> NoReq]
    /\ existingVoteID = [p \in Procs |-> 0]
    /\ existingBallotItemID = [p \in Procs |-> 0]
    /\ txLocked = [p \in Procs |-> {}]
    /\ txCount = [p \in Procs |-> ZeroCounts]
    /\ txVote = [p \in Procs |-> NoWrite]
    /\ resp = [p \in Procs |-> NoResp]
    /\ body = [p \in Procs |-> NoBody]
    /\ cause = [p \in Procs |-> "none"]
    /\ entry = [p \in Procs |-> NoEntry]
    /\ log = <<>>
    /\ ncalls = 0
    /\ is_active = ActiveBallots
    /\ seed = NoSeed

\* --------------------------------------------------------------- helpers
\* Rows of votes a SELECT ... WHERE user_id = u AND ballot_id = b returns.
VoteRows(u, b) == {v \in votes : v.user_id = u /\ v.ballot_id = b}

\* The item user u holds on ballot b in the committed state (0: none).
Held(u, b) ==
    IF VoteRows(u, b) = {} THEN 0
    ELSE (CHOOSE v \in VoteRows(u, b) : \A w \in VoteRows(u, b) : v.id <= w.id).ballot_item_id

\* The error text of the handler's `if err != nil` branch of each statement.
ErrMsg(at) ==
    CASE at = "checkItem" -> "Database error"
      [] at = "begin"     -> "Database error"
      [] at = "select"    -> "Database error"
      [] at = "dec"       -> "Error updating vote count"
      [] at = "updVote"   -> "Error updating vote"
      [] at = "insert"    -> "Error creating vote"
      [] at = "inc"       -> "Error updating vote count"
      [] at = "commit"    -> "Error committing transaction"
      [] at = "results"   -> "Error fetching results"
      [] OTHER            -> "Database error"

\* The handler returns with an error response; the deferred tx.Rollback()
\* discards the transaction's writes and releases its row locks.  No handler
\* statement writes the ballots table.
Return(p, status, msg, why) ==
    /\ pc' = [pc EXCEPT ![p] = "idle"]
    /\ resp' = [resp EXCEPT ![p] = [status |-> status, msg |-> msg]]
    /\ body' = [body EXCEPT ![p] = NoBody]
    /\ cause' = [cause EXCEPT ![p] = why]
    /\ txLocked' = [txLocked EXCEPT ![p] = {}]
    /\ txCount' = [txCount EXCEPT ![p] = ZeroCounts]
    /\ txVote' = [txVote EXCEPT ![p] = NoWrite]
    /\ UNCHANGED <<is_active, seed>>

Goto(p, at) ==
    /\ pc' = [pc EXCEPT ![p] = at]
    /\ body' = [body EXCEPT ![p] = NoBody]
    /\ UNCHANGED <<resp, cause, is_active, seed>>

\* ------------------------------------------------------------ the handler
\* Faulty variant: option_id wins when both fields are sent.
ResolveItemPrefersOption(bi, oi) == IF oi # 0 THEN oi ELSE bi

\* ballotItemID := req.BallotItemID, replaced by req.OptionID only when it is
\* zero and OptionID is not.
ResolveItem(bi, oi) == IF bi = 0 /\ oi # 0 THEN oi ELSE bi

\* Faulty variant: the option is looked up before the ballot.
VoteChecksItemFirst(p, u, b, bi, oi) ==
  LET it == ResolveItem(bi, oi) IN
    /\ pc[p] = "idle"
    /\ ncalls < MaxCalls
    /\ ncalls' = ncalls + 1
    /\ req' = [req EXCEPT ![p] = [op |-> "vote", user |-> u, ballot |-> b, item |-> it,
                                  ballot_item_id |-> bi, option_id |-> oi]]
    /\ existingVoteID' = [existingVoteID EXCEPT ![p] = 0]
    /\ existingBallotItemID' = [existingBallotItemID EXCEPT ![p] = 0]
    /\ entry' = [entry EXCEPT ![p] = [held |-> Held(u, b), commits |-> Len(log)]]
    /\ \/ /\ it = 0
          /\ Return(p, 400, "option_id or ballot_item_id is required", "validation")
       \/ /\ it # 0
          /\ Return(p, 500, "Database error", "storage")
       \/ /\ it # 0
          /\ it \notin Items
          /\ Return(p, 404, "Ballot item not found", "validation")
       \/ /\ it \in Items
          /\ b \notin Ballots
          /\ Return(p, 404, "Ballot not found", "validation")
       \/ /\ it \in Items
          /\ b \in Ballots
          /\ b \notin is_active
          /\ Return(p, 400, "Ballot is not active", "validation")
       \/ /\ it \in Items
          /\ b \in Ballots
          /\ b \in is_active
          /\ Goto(p, "checkItem")
          /\ UNCHANGED <<txLocked, txCount, txVote>>
    /\ UNCHANGED <<votes, vote_count, nextVoteId, log>>

\* Handler entry through the ballot check, for user u, ballot b and a body
\* with ballot_item_id bi and option_id oi (0: absent or zero).
Vote(p, u, b, bi, oi) ==
  LET it == ResolveItem(bi, oi) IN
    /\ pc[p] = "idle"
    /\ ncalls < MaxCalls
    /\ ncalls' = ncalls + 1
    /\ req' = [req EXCEPT ![p] = [op |-> "vote", user |-> u, ballot |-> b, item |-> it,
                                  ballot_item_id |-> bi, option_id |-> oi]]
    /\ existingVoteID' = [existingVoteID EXCEPT ![p] = 0]
    /\ existingBallotItemID' = [existingBallotItemID EXCEPT ![p] = 0]
    /\ entry' = [entry EXCEPT ![p] = [held |-> Held(u, b), commits |-> Len(log)]]
    /\ \/ /\ it = 0
          /\ Return(p, 400, "option_id or ballot_item_id is required", "validation")
       \/ /\ it # 0
          /\ Return(p, 500, "Database error", "storage")
       \/ /\ it # 0
          /\ b \notin Ballots
          /\ Return(p, 404, "Ballot not found", "validation")
       \/ /\ it # 0
          /\ b \in Ballots
          /\ b \notin is_active
          /\ Return(p, 400, "Ballot is not active", "validation")
       \/ /\ it # 0
          /\ b \in Ballots
          /\ b \in is_active
          /\ Goto(p, "checkItem")
          /\ UNCHANGED <<txLocked, txCount, txVote>>
    /\ UNCHANGED <<votes, vote_count, nextVoteId, log>>

\* Faulty variant: the option's ballot is not compared with the request's.
CheckItemNoOwnerCheck(p) ==
    /\ pc[p] = "checkItem"
    /\ \/ /\ req[p].item \notin Items
          /\ Return(p, 404, "Ballot item not found", "validation")
       \/ /\ req[p].item \in Items
          /\ Goto(p, "begin")
          /\ UNCHANGED <<txLocked, txCount, txVote>>
    /\ UNCHANGED <<votes, vote_count, nextVoteId, req, existingVoteID,
                   existingBallotItemID, log, ncalls, entry>>

\* Faulty variant: the option's count is raised before its ballot is compared.
CheckItemAfterIncrement(p) ==
    /\ pc[p] = "checkItem"
    /\ \/ /\ req[p].item \notin Items
          /\ Return(p, 404, "Ballot item not found", "validation")
          /\ UNCHANGED vote_count
       \/ /\ req[p].item \in Items
          /\ ItemBallot[req[p].item] # req[p].ballot
          /\ vote_count' = [vote_count EXCEPT ![req[p].item] = @ + 1]
          /\ Return(p, 400, "Ballot item does not belong to this ballot", "validation")
       \/ /\ req[p].item \in Items
          /\ ItemBallot[req[p].item] = req[p].ballot
          /\ Goto(p, "begin")
          /\ UNCHANGED <<txLocked, txCount, txVote, vote_count>>
    /\ UNCHANGED <<votes, nextVoteId, req, existingVoteID,
                   existingBallotItemID, log, ncalls, entry>>

\* SELECT ballot_id FROM ballot_items WHERE id = ballotItemID.
CheckItem(p) ==
    /\ pc[p] = "checkItem"
    /\ \/ /\ req[p].item \notin Items
          /\ Return(p, 404, "Ballot item not found", "validation")
       \/ /\ req[p].item \in Items
          /\ ItemBallot[req[p].item] # req[p].ballot
          /\ Return(p, 400, "Ballot item does not belong to this ballot", "validation")
       \/ /\ req[p].item \in Items
          /\ ItemBallot[req[p].item] = req[p].ballot
          /\ Goto(p, "begin")
          /\ UNCHANGED <<txLocked, txCount, txVote>>
    /\ UNCHANGED <<votes, vote_count, nextVoteId, req, existingVoteID,
                   existingBallotItemID, log, ncalls, entry>>

\* tx, err := h.db.Begin()
Begin(p) ==
    /\ pc[p] = "begin"
    /\ Goto(p, "select")
    /\ UNCHANGED <<votes, vote_count, nextVoteId, req, existingVoteID,
                   existingBallotItemID, txLocked, txCount, txVote, log, ncalls, entry>>

\* SELECT id, ballot_item_id FROM votes WHERE user_id = $1 AND ballot_id = $2:
\* a plain read of the committed rows, taking no lock.
SelectExisting(p) ==
    /\ pc[p] = "select"
    /\ LET rows == VoteRows(req[p].user, req[p].ballot)
           row == CHOOSE v \in rows : \A w \in rows : v.id <= w.id
       IN  IF rows = {}
           THEN /\ Goto(p, "insert")
                /\ UNCHANGED <<existingVoteID, existingBallotItemID>>
           ELSE /\ Goto(p, "dec")
                /\ existingVoteID' = [existingVoteID EXCEPT ![p] = row.id]
                /\ existingBallotItemID' =
                       [existingBallotItemID EXCEPT ![p] = row.ballot_item_id]
    /\ UNCHANGED <<votes, vote_count, nextVoteId, req, txLocked, txCount,
                   txVote, log, ncalls, entry>>

\* Faulty variant: the counter update takes no row lock.
ItemNeverLocked(p, o) == FALSE

\* The row of ballot_items is locked by another transaction's pending write.
ItemLockedByOther(p, o) == \E q \in Procs \ {p} : o \in txLocked[q]

\* Faulty variant: the decrement of the previous choice is left out.
RelativeUpdateNoDecrement(p, o, d) ==
    (IF o \in txLocked[p] THEN txCount[p][o] ELSE vote_count[o])
        + (IF d < 0 THEN 0 ELSE d)

\* Faulty variant: the statement works on the committed value even when the
\* transaction has already written the row.
RelativeUpdateStale(p, o, d) == vote_count[o] + d

\* The value SET vote_count = vote_count + d works on: the transaction's own
\* version when it has written the row, the committed one otherwise.
RelativeUpdate(p, o, d) ==
    (IF o \in txLocked[p] THEN txCount[p][o] ELSE vote_count[o]) + d

\* UPDATE ballot_items SET vote_count = vote_count + d WHERE id = o.
UpdateCount(p, o, d) ==
    /\ ~ItemLockedByOther(p, o)
    /\ txLocked' = [txLocked EXCEPT ![p] = @ \cup {o}]
    /\ txCount' = [txCount EXCEPT ![p][o] = RelativeUpdate(p, o, d)]

\* UPDATE ballot_items SET vote_count = vote_count - 1 WHERE id = existingBallotItemID.
DecOld(p) ==
    /\ pc[p] = "dec"
    /\ UpdateCount(p, existingBallotItemID[p], -1)
    /\ Goto(p, "updVote")
    /\ UNCHANGED <<votes, vote_count, nextVoteId, req, existingVoteID,
                   existingBallotItemID, txVote, log, ncalls, entry>>

\* Another transaction has a pending UPDATE of the votes row.
VoteRowLockedByOther(p, id) ==
    \E q \in Procs \ {p} : txVote[q].kind = "update" /\ txVote[q].id = id

\* UPDATE votes SET ballot_item_id = $1 WHERE id = existingVoteID.
UpdVote(p) ==
    /\ pc[p] = "updVote"
    /\ ~VoteRowLockedByOther(p, existingVoteID[p])
    /\ txVote' = [txVote EXCEPT ![p] =
                     [kind |-> "update", id |-> existingVoteID[p],
                      user_id |-> req[p].user, ballot_id |-> req[p].ballot,
                      ballot_item_id |-> req[p].item]]
    /\ Goto(p, "inc")
    /\ UNCHANGED <<votes, vote_count, nextVoteId, req, existingVoteID,
                   existingBallotItemID, txLocked, txCount, log, ncalls, entry>>

\* Another transaction has an uncommitted INSERT of the same (user_id, ballot_id).
InsertPendingByOther(p, u, b) ==
    \E q \in Procs \ {p} :
        txVote[q].kind = "insert" /\ txVote[q].user_id = u /\ txVote[q].ballot_id = b

\* Faulty variant: votes has no UNIQUE(user_id, ballot_id).
NoUniqueConstraint(u, b) == FALSE

\* UNIQUE(user_id, ballot_id) of votes: a committed row with the key exists.
UniqueViolation(u, b) == VoteRows(u, b) # {}

\* Faulty variant: an insert refused by the unique constraint is ignored and
\* the handler goes on to the increment.
InsertVoteIgnoresConflict(p) ==
    /\ pc[p] = "insert"
    /\ ~InsertPendingByOther(p, req[p].user, req[p].ballot)
    /\ nextVoteId' = nextVoteId + 1
    /\ IF UniqueViolation(req[p].user, req[p].ballot)
       THEN UNCHANGED txVote
       ELSE txVote' = [txVote EXCEPT ![p] =
                          [kind |-> "insert", id |-> nextVoteId,
                           user_id |-> req[p].user, ballot_id |-> req[p].ballot,
                           ballot_item_id |-> req[p].item]]
    /\ Goto(p, "inc")
    /\ UNCHANGED <<txLocked, txCount>>
    /\ UNCHANGED <<votes, vote_count, req, existingVoteID,
                   existingBallotItemID, log, ncalls, entry>>

\* INSERT INTO votes (user_id, ballot_id, ballot_item_id) VALUES ($1, $2, $3).
\* The id is drawn from the sequence whether or not the insert succeeds.
InsertVote(p) ==
    /\ pc[p] = "insert"
    /\ ~InsertPendingByOther(p, req[p].user, req[p].ballot)
    /\ nextVoteId' = nextVoteId + 1
    /\ IF UniqueViolation(req[p].user, req[p].ballot)
       THEN Return(p, 500, ErrMsg("insert"), "unique")
       ELSE /\ txVote' = [txVote EXCEPT ![p] =
                             [kind |-> "insert", id |-> nextVoteId,
                              user_id |-> req[p].user, ballot_id |-> req[p].ballot,
                              ballot_item_id |-> req[p].item]]
            /\ Goto(p, "inc")
            /\ UNCHANGED <<txLocked, txCount>>
    /\ UNCHANGED <<votes, vote_count, req, existingVoteID,
                   existingBallotItemID, log, ncalls, entry>>

\* UPDATE ballot_items SET vote_count = vote_count + 1 WHERE id = ballotItemID.
IncNew(p) ==
    /\ pc[p] = "inc"
    /\ UpdateCount(p, req[p].item, 1)
    /\ Goto(p, "commit")
    /\ UNCHANGED <<votes, vote_count, nextVoteId, req, existingVoteID,
                   existingBallotItemID, txVote, log, ncalls, entry>>

\* The update is keyed by the user alone: every row of the user, on whatever
\* ballot, takes the new option.
ApplyVoteWriteAllOfUser(w) ==
    CASE w.kind = "insert" ->
            votes \cup {[id |-> w.id, user_id |-> w.user_id,
                         ballot_id |-> w.ballot_id, ballot_item_id |-> w.ballot_item_id]}
      [] w.kind = "update" ->
            {IF v.user_id = w.user_id THEN [v EXCEPT !.ballot_item_id = w.ballot_item_id]
             ELSE v : v \in votes}
      [] OTHER -> votes

\* Faulty variant: a vote change deletes the row and inserts a new one.
ApplyVoteWriteDeleteInsert(w) ==
    CASE w.kind = "insert" ->
            votes \cup {[id |-> w.id, user_id |-> w.user_id,
                         ballot_id |-> w.ballot_id, ballot_item_id |-> w.ballot_item_id]}
      [] w.kind = "update" ->
            {v \in votes : v.id # w.id}
                \cup {[id |-> nextVoteId, user_id |-> w.user_id,
                       ballot_id |-> w.ballot_id, ballot_item_id |-> w.ballot_item_id]}
      [] OTHER -> votes

\* Faulty variant: a pending INSERT is not installed.
ApplyVoteWriteLosesInsert(w) ==
    CASE w.kind = "update" ->
            {IF v.id = w.id THEN [v EXCEPT !.ballot_item_id = w.ballot_item_id] ELSE v
                : v \in votes}
      [] OTHER -> votes

\* The rows of votes after the transaction's pending write is installed.
ApplyVoteWrite(w) ==
    CASE w.kind = "insert" ->
            votes \cup {[id |-> w.id, user_id |-> w.user_id,
                         ballot_id |-> w.ballot_id, ballot_item_id |-> w.ballot_item_id]}
      [] w.kind = "update" ->
            {IF v.id = w.id THEN [v EXCEPT !.ballot_item_id = w.ballot_item_id] ELSE v
                : v \in votes}
      [] OTHER -> votes

\* tx.Commit() and the success response: the transaction's versions of the
\* rows it wrote become the committed ones, and its locks are released.
Commit(p) ==
    /\ pc[p] = "commit"
    /\ votes' = ApplyVoteWrite(txVote[p])
    /\ vote_count' = [o \in Items |->
                         IF o \in txLocked[p] THEN txCount[p][o] ELSE vote_count[o]]
    /\ log' = Append(log, [user |-> req[p].user, ballot |-> req[p].ballot,
                           item |-> req[p].item,
                           dec |-> existingBallotItemID[p],
                           held |-> Held(req[p].user, req[p].ballot),
                           before |-> vote_count,
                           votesBefore |-> votes,
                           entry |-> entry[p]])
    /\ Return(p, 200, "Vote recorded successfully", "none")
    /\ UNCHANGED <<nextVoteId, req, existingVoteID, existingBallotItemID,
                   ncalls, entry>>

\* Faulty variant: the statements ran outside the transaction, so the writes
\* made before the failing statement stay.
DbErrorKeepsWrites(p) ==
    /\ pc[p] # "idle"
    /\ votes' = ApplyVoteWrite(txVote[p])
    /\ vote_count' = [o \in Items |->
                         IF o \in txLocked[p] THEN txCount[p][o] ELSE vote_count[o]]
    /\ Return(p, 500, ErrMsg(pc[p]), "storage")
    /\ UNCHANGED <<nextVoteId, req, existingVoteID, existingBallotItemID,
                   log, ncalls, entry>>

\* Any statement after the ballot check fails (store unreachable, connection
\* lost, commit refused): the handler reports the statement's error.
DbError(p) ==
    /\ pc[p] # "idle"
    /\ Return(p, 500, ErrMsg(pc[p]), "storage")
    /\ UNCHANGED <<votes, vote_count, nextVoteId, req, existingVoteID,
                   existingBallotItemID, log, ncalls, entry>>

\* The processes whose transaction p's current statement waits for.
WaitsFor(p) ==
    CASE pc[p] = "dec" ->
            {q \in Procs \ {p} : existingBallotItemID[p] \in txLocked[q]}
      [] pc[p] = "inc" ->
            {q \in Procs \ {p} : req[p].item \in txLocked[q]}
      [] pc[p] = "updVote" ->
            {q \in Procs \ {p} : txVote[q].kind = "update"
                                 /\ txVote[q].id = existingVoteID[p]}
      [] pc[p] = "insert" ->
            {q \in Procs \ {p} : txVote[q].kind = "insert"
                                 /\ txVote[q].user_id = req[p].user
                                 /\ txVote[q].ballot_id = req[p].ballot}
      [] OTHER -> {}

RECURSIVE WaitReach(_, _)
WaitReach(S, n) ==
    IF n = 0 THEN S
    ELSE WaitReach(S \cup UNION {WaitsFor(q) : q \in S}, n - 1)

\* Faulty variant: no deadlock detection.
NeverDeadlocked(p) == FALSE

Deadlocked(p) == p \in WaitReach(WaitsFor(p), Cardinality(Procs))

\* PostgreSQL's deadlock detector aborts a transaction of a waits-for cycle;
\* its statement returns an error to the handler.
DeadlockAbort(p) ==
    /\ Deadlocked(p)
    /\ Return(p, 500, ErrMsg(pc[p]), "deadlock")
    /\ UNCHANGED <<votes, vote_count, nextVoteId, req, existingVoteID,
                   existingBallotItemID, log, ncalls, entry>>

Next ==
    \E p \in Procs :
        \/ \E u \in Users, b \in ReqBallots, it \in ReqItems : Vote(p, u, b, it, 0)
        \/ CheckItem(p)
        \/ Begin(p)
        \/ SelectExisting(p)
        \/ DecOld(p)
        \/ UpdVote(p)
        \/ InsertVote(p)
        \/ IncNew(p)
        \/ Commit(p)
        \/ DbError(p)
        \/ DeadlockAbort(p)

Spec == Init /\ [][Next]_vars

\* Requests served one at a time: a handler runs from entry to response while
\* every other process is idle.
Alone(p) == \A q \in Procs \ {p} : pc[q] = "idle"

NextSeq ==
    \E p \in Procs :
        \/ \E u \in Users, b \in ReqBallots, it \in ReqItems :
              Alone(p) /\ Vote(p, u, b, it, 0)
        \/ Alone(p) /\ CheckItem(p)
        \/ Alone(p) /\ Begin(p)
        \/ Alone(p) /\ SelectExisting(p)
        \/ Alone(p) /\ DecOld(p)
        \/ Alone(p) /\ UpdVote(p)
        \/ Alone(p) /\ InsertVote(p)
        \/ Alone(p) /\ IncNew(p)
        \/ Alone(p) /\ Commit(p)
        \/ Alone(p) /\ DbError(p)

SpecSeq == Init /\ [][NextSeq]_vars

\* ------------------------------------------------------- the read handlers
\* A read handler answers 200 with data; it holds no transaction.
ReturnData(p, data, why) ==
    /\ pc' = [pc EXCEPT ![p] = "idle"]
    /\ resp' = [resp EXCEPT ![p] = [status |-> 200, msg |-> ""]]
    /\ body' = [body EXCEPT ![p] = data]
    /\ cause' = [cause EXCEPT ![p] = why]
    /\ UNCHANGED <<txLocked, txCount, txVote, is_active, seed>>

\* Faulty variant: the lookup forgets the ballot.
UserVoteQueryAnyBallot(u, b) == {v \in votes : v.user_id = u}

\* SELECT ... FROM votes WHERE user_id = $1 AND ballot_id = $2, on the
\* committed rows.
UserVoteQuery(u, b) == VoteRows(u, b)

\* The JSON of a vote row; option_id repeats ballot_item_id.
VoteJSON(v) ==
    [id |-> v.id, user_id |-> v.user_id, ballot_id |-> v.ballot_id,
     ballot_item_id |-> v.ballot_item_id, option_id |-> v.ballot_item_id]

\* GET /ballots/:ballot_id/my-vote: one query outside any transaction; the
\* history notes whether a transaction had a pending write on the row read.
GetUserVote(p, u, b) ==
    /\ pc[p] = "idle"
    /\ ncalls < MaxCalls
    /\ ncalls' = ncalls + 1
    /\ req' = [req EXCEPT ![p] = [NoReq EXCEPT !.op = "myvote", !.user = u, !.ballot = b]]
    /\ entry' = [entry EXCEPT ![p] = [held |-> Held(u, b), commits |-> Len(log)]]
    /\ \/ Return(p, 500, "Database error", "storage")
       \/ /\ UserVoteQuery(u, b) = {}
          /\ Return(p, 404, "No vote found for this ballot", "novote")
       \/ \E v \in UserVoteQuery(u, b) :
             ReturnData(p, [NoBody EXCEPT !.vote = VoteJSON(v)],
                        IF \E q \in Procs : txVote[q].id = v.id
                        THEN "overlap" ELSE "none")
    /\ UNCHANGED <<votes, vote_count, nextVoteId, existingVoteID,
                   existingBallotItemID, log>>

\* Faulty variant: the existence check also asks for is_active = true.
GetBallotResultsActiveOnly(p, b) ==
    /\ pc[p] = "idle"
    /\ ncalls < MaxCalls
    /\ ncalls' = ncalls + 1
    /\ req' = [req EXCEPT ![p] = [NoReq EXCEPT !.op = "results", !.ballot = b]]
    /\ entry' = [entry EXCEPT ![p] = [held |-> 0, commits |-> Len(log)]]
    /\ \/ Return(p, 500, "Database error", "storage")
       \/ /\ b \notin Ballots \cap is_active
          /\ Return(p, 404, "Ballot not found", "validation")
       \/ /\ b \in Ballots \cap is_active
          /\ Goto(p, "results")
          /\ UNCHANGED <<txLocked, txCount, txVote>>
    /\ UNCHANGED <<votes, vote_count, nextVoteId, existingVoteID,
                   existingBallotItemID, log>>

\* GET /ballots/:id/results, first statement: SELECT EXISTS(... ballots ...).
GetBallotResults(p, b) ==
    /\ pc[p] = "idle"
    /\ ncalls < MaxCalls
    /\ ncalls' = ncalls + 1
    /\ req' = [req EXCEPT ![p] = [NoReq EXCEPT !.op = "results", !.ballot = b]]
    /\ entry' = [entry EXCEPT ![p] = [held |-> 0, commits |-> Len(log)]]
    /\ \/ Return(p, 500, "Database error", "storage")
       \/ /\ b \notin Ballots
          /\ Return(p, 404, "Ballot not found", "validation")
       \/ /\ b \in Ballots
          /\ Goto(p, "results")
          /\ UNCHANGED <<txLocked, txCount, txVote>>
    /\ UNCHANGED <<votes, vote_count, nextVoteId, existingVoteID,
                   existingBallotItemID, log>>

\* Faulty variant: rows ordered by id alone.
RECURSIVE OrderByIdAsc(_, _)
OrderByIdAsc(cnt, S) ==
    IF S = {} THEN <<>>
    ELSE LET first == CHOOSE o \in S : \A x \in S : o <= x
         IN  <<first>> \o OrderByIdAsc(cnt, S \ {first})

\* ORDER BY vote_count DESC, id ASC over the option ids S with counts cnt.
RECURSIVE OrderByCountDescIdAsc(_, _)
OrderByCountDescIdAsc(cnt, S) ==
    IF S = {} THEN <<>>
    ELSE LET first == CHOOSE o \in S : \A x \in S \ {o} :
                          \/ cnt[o] > cnt[x]
                          \/ cnt[o] = cnt[x] /\ o < x
         IN  <<first>> \o OrderByCountDescIdAsc(cnt, S \ {first})

\* One scanned row of the results query as the handler emits it.
ResultJSON(o, cnt) ==
    [id |-> o, option_id |-> o, ballot_id |-> ItemBallot[o], vote_count |-> cnt[o]]

\* Faulty variant: the total counts the rows.
TotalVotesCountsRows(results) == Len(results)

\* totalVotes += item.VoteCount over the scanned rows.
RECURSIVE TotalVotes(_)
TotalVotes(results) ==
    IF results = <<>> THEN 0
    ELSE Head(results).vote_count + TotalVotes(Tail(results))

\* Faulty variant: the query sees the version of a row that a transaction
\* has written and not yet committed.
ReadUncommitted(o) ==
    IF \E q \in Procs : o \in txLocked[q]
    THEN txCount[CHOOSE q \in Procs : o \in txLocked[q]][o]
    ELSE vote_count[o]

\* The vote_count of row o that a query outside every transaction reads
\* (h.db.Query, READ COMMITTED): the committed one.
ReadCommitted(o) == vote_count[o]

\* Second statement: the items query, its scan loop and the response; the
\* history notes whether a transaction had a pending write on a row read.
ResultsQuery(p) ==
    /\ pc[p] = "results"
    /\ LET b == req[p].ballot
           cnt == [o \in Items |-> ReadCommitted(o)]
           order == OrderByCountDescIdAsc(cnt, ItemsOf(b))
           results == [i \in 1..Len(order) |-> ResultJSON(order[i], cnt)]
       IN  \/ /\ ItemsOf(b) # {}
              /\ Return(p, 500, "Error scanning result", "storage")
           \/ ReturnData(p, [NoBody EXCEPT !.ballot_id = b,
                                           !.results = results,
                                           !.total_votes = TotalVotes(results)],
                         IF \E q \in Procs : txLocked[q] \cap ItemsOf(b) # {}
                         THEN "overlap" ELSE "none")
    /\ UNCHANGED <<votes, vote_count, nextVoteId, req, existingVoteID,
                   existingBallotItemID, log, ncalls, entry>>

\* The write handler together with the two read handlers.
NextRead ==
    \E p \in Procs :
        \/ \E u \in Users, b \in ActiveBallots, it \in Items : Vote(p, u, b, it, 0)
        \/ CheckItem(p)
        \/ Begin(p)
        \/ SelectExisting(p)
        \/ DecOld(p)
        \/ UpdVote(p)
        \/ InsertVote(p)
        \/ IncNew(p)
        \/ Commit(p)
        \/ DbError(p)
        \/ DeadlockAbort(p)
        \/ \E u \in Users, b \in ReqBallots : GetUserVote(p, u, b)
        \/ \E b \in ReqBallots : GetBallotResults(p, b)
        \/ ResultsQuery(p)

SpecRead == Init /\ [][NextRead]_vars

\* ------------------------------------------------------ calls that run on
\* Concurrent casts on one ballot, among its options.
NextCast ==
    \E p \in Procs :
        \/ \E u \in Users, it \in ItemsOf(1) : Vote(p, u, 1, it, 0)
        \/ CheckItem(p)
        \/ Begin(p)
        \/ SelectExisting(p)
        \/ DecOld(p)
        \/ UpdVote(p)
        \/ InsertVote(p)
        \/ IncNew(p)
        \/ Commit(p)
        \/ DbError(p)
        \/ DeadlockAbort(p)

\* The next statement of p's handler, or the database ending p's wait in a
\* deadlock.
Step(p) ==
    \/ CheckItem(p)
    \/ Begin(p)
    \/ SelectExisting(p)
    \/ DecOld(p)
    \/ UpdVote(p)
    \/ InsertVote(p)
    \/ IncNew(p)
    \/ Commit(p)
    \/ DeadlockAbort(p)

\* Every goroutine keeps running and the database executes every statement
\* that waits for no lock.
SpecLive == Init /\ [][NextCast]_vars /\ \A p \in Procs : WF_vars(Step(p))

\* ------------------------------------------------- the protected routes
\* What a request carries as credentials: no Authorization header, a header
\* without the Bearer prefix, a token that ValidateJWT rejects, a verified
\* token without a numeric user_id claim, a verified token of a user.
Credentials == {"none", "noBearer", "badToken", "noUserClaim", "valid"}
ItemFields == {0, 1, 2}         \* values of a body field (0: absent or zero)
RouteBallots == {1}             \* ballot ids in the path

\* Faulty variant: the token's claims are used although ValidateJWT failed.
AuthMiddlewareSkipsVerify(cred) ==
    CASE cred = "none"        -> "Authorization header required"
      [] cred = "noBearer"    -> "Bearer token required"
      [] cred = "noUserClaim" -> "Invalid token claims"
      [] OTHER                -> ""

\* The error AuthMiddleware aborts the request with ("": it calls c.Next()).
AuthMiddleware(cred) ==
    CASE cred = "none"        -> "Authorization header required"
      [] cred = "noBearer"    -> "Bearer token required"
      [] cred = "badToken"    -> "Invalid token"
      [] cred = "noUserClaim" -> "Invalid token claims"
      [] OTHER                -> ""

\* c.JSON(401, ...) and c.Abort(): the handler of the route is not called.
Unauthorized(p, op, b, msg) ==
    /\ pc[p] = "idle"
    /\ ncalls < MaxCalls
    /\ ncalls' = ncalls + 1
    /\ req' = [req EXCEPT ![p] = [NoReq EXCEPT !.op = op, !.ballot = b]]
    /\ Return(p, 401, msg, "auth")
    /\ UNCHANGED <<votes, vote_count, nextVoteId, existingVoteID,
                   existingBallotItemID, entry, log>>

\* POST /ballots/:ballot_id/vote behind AuthMiddleware.
PostVote(p, cred, u, b, bi, oi) ==
    IF AuthMiddleware(cred) # ""
    THEN Unauthorized(p, "vote", b, AuthMiddleware(cred))
    ELSE Vote(p, u, b, bi, oi)

\* GET /ballots/:ballot_id/my-vote behind AuthMiddleware.
GetMyVote(p, cred, u, b) ==
    IF AuthMiddleware(cred) # ""
    THEN Unauthorized(p, "myvote", b, AuthMiddleware(cred))
    ELSE GetUserVote(p, u, b)

\* Requests to the protected routes, served one at a time by one goroutine.
NextHttp ==
    \E p \in {1} :
        \/ \E cred \in Credentials, u \in Users, b \in RouteBallots,
              bi \in ItemFields, oi \in ItemFields :
              PostVote(p, cred, u, b, bi, oi)
        \/ \E cred \in Credentials, u \in Users, b \in RouteBallots :
              GetMyVote(p, cred, u, b)
        \/ CheckItem(p)
        \/ Begin(p)
        \/ SelectExisting(p)
        \/ DecOld(p)
        \/ UpdVote(p)
        \/ InsertVote(p)
        \/ IncNew(p)
        \/ Commit(p)
        \/ DbError(p)

SpecHttp == Init /\ [][NextHttp]_vars

\* ------------------------------------------------- a ballot being closed
\* The ballots that are closed while requests run.
Closable == {1}

\* The ballot store sets is_active = false on ballot b.
Deactivate(b) ==
    /\ b \in is_active
    /\ is_active' = is_active \ {b}
    /\ UNCHANGED <<votes, vote_count, nextVoteId, pc, req, existingVoteID,
                   existingBallotItemID, txLocked, txCount, txVote, resp, body,
                   cause, entry, log, ncalls, seed>>

\* Casts on a ballot, and results requests, while the ballot is closed.
NextClose ==
    \/ \E p \in Procs :
          \/ \E u \in Users, b \in Closable, it \in Items : Vote(p, u, b, it, 0)
          \/ CheckItem(p)
          \/ Begin(p)
          \/ SelectExisting(p)
          \/ DecOld(p)
          \/ UpdVote(p)
          \/ InsertVote(p)
          \/ IncNew(p)
          \/ Commit(p)
          \/ DbError(p)
          \/ DeadlockAbort(p)
          \/ \E b \in ReqBallots : GetBallotResults(p, b)
          \/ ResultsQuery(p)
    \/ \E b \in Closable : Deactivate(b)

SpecClose == Init /\ [][NextClose]_vars

\* -------------------------------------------------------- the seed script
MaxRuns == 2                    \* runs of the seed script in one behaviour

\* The seeded users: alice gets id 1, bob id 2.
SeedUserIds == {1, 2}

\* The seeded ballots, by title: two federal ballots with listed options
\* and one state ballot that gets the generic options.
SeedBallotTitles == <<"Executive Branch Budget Priorities",
                      "Federal Court System Reform",
                      "California High-Speed Rail Completion">>

\* The listed options: ballot title and option title.
SeedItemList ==
    <<[ballotTitle |-> "Executive Branch Budget Priorities", title |-> "National Security"],
      [ballotTitle |-> "Executive Branch Budget Priorities", title |-> "Infrastructure"],
      [ballotTitle |-> "Federal Court System Reform", title |-> "Yes - Expand Courts"],
      [ballotTitle |-> "Federal Court System Reform", title |-> "No - Maintain Current System"]>>

\* The generic options of a ballot without listed options whose title ends
\* in "Completion".
GenericOptions == <<"Prioritize Completion", "Reassess Project">>

Range(f) == {f[i] : i \in DOMAIN f}

\* The script touches nothing of the running server.
SeedOnly ==
    UNCHANGED <<votes, vote_count, nextVoteId, pc, req, existingVoteID,
                existingBallotItemID, txLocked, txCount, txVote, resp, body,
                cause, entry, log, ncalls, is_active>>

\* main starts; seedUsers: INSERT INTO users ... ON CONFLICT (email) DO
\* NOTHING, for alice and for bob.
seedUsers ==
    /\ seed.pc = "idle"
    /\ seed.started < MaxRuns
    /\ seed' = [seed EXCEPT !.pc = "seedBallots",
                            !.started = @ + 1,
                            !.ok = FALSE,
                            !.tables.users = @ \cup SeedUserIds]
    /\ SeedOnly

\* seedBallots: INSERT INTO ballots ... ON CONFLICT DO NOTHING for every
\* listed ballot.  ballots has no unique constraint besides its serial id, so
\* no insert ever conflicts.
seedBallots ==
    /\ seed.pc = "seedBallots"
    /\ LET n == Len(SeedBallotTitles)
           rows == {[id |-> seed.nextBallot + k - 1, title |-> SeedBallotTitles[k]]
                      : k \in 1..n}
       IN  seed' = [seed EXCEPT !.pc = "seedBallotItems",
                                !.nextBallot = @ + n,
                                !.tables.ballots = @ \cup rows]
    /\ SeedOnly

\* The ids of the ballots with title t.
BallotIdsOf(t) == {b.id : b \in {x \in seed.tables.ballots : x.title = t}}

\* What `SELECT id, title FROM ballots` can leave in the ballotIDs map: for
\* every title the id of the row scanned last, in an order the query does
\* not fix.
BallotIDMaps ==
    {m \in [Range(SeedBallotTitles) -> {b.id : b \in seed.tables.ballots}] :
        \A t \in Range(SeedBallotTitles) : m[t] \in BallotIdsOf(t)}

\* Rows added to ballot_items with serial ids from `next` on, vote_count 0.
NewItems(next, rows) ==
    {[id |-> next + k - 1, ballot_id |-> rows[k].ballot_id,
      title |-> rows[k].title, vote_count |-> 0] : k \in 1..Len(rows)}

\* The generic options for the ballots of the map that have no item yet.
RECURSIVE GenericRows(_, _, _)
GenericRows(ts, m, items) ==
    IF ts = <<>> THEN <<>>
    ELSE LET b == m[Head(ts)]
             mine == IF \E x \in items : x.ballot_id = b THEN <<>>
                     ELSE [k \in 1..Len(GenericOptions) |->
                             [ballot_id |-> b, title |-> GenericOptions[k]]]
         IN  mine \o GenericRows(Tail(ts), m, items)

\* seedBallotItems: the listed options for the ballots the map names, then
\* the generic options for the mapped ballots that still have none; every
\* INSERT ... ON CONFLICT DO NOTHING inserts, ballot_items having no unique
\* constraint besides its serial id.
seedBallotItems ==
    /\ seed.pc = "seedBallotItems"
    /\ \E m \in BallotIDMaps :
          LET listed == [k \in 1..Len(SeedItemList) |->
                           [ballot_id |-> m[SeedItemList[k].ballotTitle],
                            title |-> SeedItemList[k].title]]
              items1 == seed.tables.ballot_items \cup NewItems(seed.nextItem, listed)
              generic == GenericRows(SeedBallotTitles, m, items1)
              items2 == items1 \cup NewItems(seed.nextItem + Len(listed), generic)
          IN  seed' = [seed EXCEPT !.pc = "seedVotes",
                                   !.nextItem = @ + Len(listed) + Len(generic),
                                   !.tables.ballot_items = items2]
    /\ SeedOnly

\* The ids of the options of ballot b with title t.
ItemIdsOf(t, b) ==
    {x.id : x \in {y \in seed.tables.ballot_items : y.title = t /\ y.ballot_id = b}}

\* seedVotes up to its loop: QueryRow takes one row of each lookup, any of
\* them when several match; a lookup without rows ends the script.
seedVotes ==
    /\ seed.pc = "seedVotes"
    /\ \E e \in BallotIdsOf("Executive Branch Budget Priorities"),
          j \in BallotIdsOf("Federal Court System Reform") :
          \/ /\ \/ ItemIdsOf("Infrastructure", e) = {}
                \/ ItemIdsOf("Yes - Expand Courts", j) = {}
             /\ seed' = [seed EXCEPT !.pc = "idle"]
          \/ \E infra \in ItemIdsOf("Infrastructure", e),
                expand \in ItemIdsOf("Yes - Expand Courts", j) :
                seed' = [seed EXCEPT
                           !.pc = "insert", !.i = 1,
                           !.todo = <<[user_id |-> 1, ballot_id |-> e, ballot_item_id |-> infra],
                                      [user_id |-> 2, ballot_id |-> j, ballot_item_id |-> expand]>>]
    /\ SeedOnly

\* The loop's INSERT INTO votes ... ON CONFLICT (user_id, ballot_id) DO
\* NOTHING.
seedVotesInsert ==
    /\ seed.pc = "insert"
    /\ LET v == seed.todo[seed.i]
           conflict == \E w \in seed.tables.votes :
                          w.user_id = v.user_id /\ w.ballot_id = v.ballot_id
       IN  seed' = [seed EXCEPT !.pc = "update",
                                !.tables.votes = IF conflict THEN @ ELSE @ \cup {v}]
    /\ SeedOnly

\* The loop's UPDATE ballot_items SET vote_count = vote_count + 1 WHERE
\* id = $1, run after every INSERT; after the last vote main returns.
seedVotesUpdate ==
    /\ seed.pc = "update"
    /\ LET v == seed.todo[seed.i]
           items == {IF x.id = v.ballot_item_id
                     THEN [x EXCEPT !.vote_count = @ + 1] ELSE x
                       : x \in seed.tables.ballot_items}
           tables == [seed.tables EXCEPT !.ballot_items = items]
       IN  IF seed.i < Len(seed.todo)
           THEN seed' = [seed EXCEPT !.pc = "insert", !.i = @ + 1, !.tables = tables]
           ELSE seed' = [seed EXCEPT !.pc = "idle", !.i = 0, !.todo = <<>>,
                                     !.tables = tables,
                                     !.ok = TRUE,
                                     !.completed = @ + 1,
                                     !.first = IF seed.completed = 0 THEN tables ELSE @]
    /\ SeedOnly

\* A statement fails and main ends in log.Fatal: what was inserted stays,
\* no statement of the script running in a transaction.
seedFatal ==
    /\ seed.pc # "idle"
    /\ seed' = [seed EXCEPT !.pc = "idle", !.i = 0, !.todo = <<>>]
    /\ SeedOnly

NextSeed ==
    \/ seedUsers
    \/ seedBallots
    \/ seedBallotItems
    \/ seedVotes
    \/ seedVotesInsert
    \/ seedVotesUpdate
    \/ seedFatal

\* The seed script run on an empty database, the server not serving.
InitSeed == Init /\ votes = {}

SpecSeed == InitSeed /\ [][NextSeed]_vars

\* ------------------------------------------------------------ properties
RECURSIVE SumCounts(_, _)
SumCounts(cnt, S) ==
    IF S = {} THEN 0
    ELSE LET o == CHOOSE x \in S : TRUE IN cnt[o] + SumCounts(cnt, S \ {o})

VotesOn(b) == {v \in votes : v.ballot_id = b}
Quiescent == \A p \in Procs : pc[p] = "idle"
InTx(p) == pc[p] \in {"select", "dec", "updVote", "insert", "inc", "commit"}

\* C1: in every committed state, also while transactions are in flight, the
\* vote counts of a ballot's options add up to the number of votes rows of
\* that ballot.
C1_CountsMatchLedger ==
    \A b \in Ballots : SumCounts(vote_count, ItemsOf(b)) = Cardinality(VotesOn(b))

\* A vote change has decremented, rewritten the row and incremented inside its
\* transaction and is about to commit, after another cast has committed.
C1_Witness ==
    \E p \in Procs :
        /\ pc[p] = "commit"
        /\ txVote[p].kind = "update"
        /\ Cardinality(txLocked[p]) = 2
        /\ Len(log) >= 1

\* C2: there is never more than one votes row for a (user, ballot) pair.
C2_OneVotePerUserBallot ==
    \A u \in Users, b \in Ballots : Cardinality(VoteRows(u, b)) <= 1

\* Two calls of one user on one ballot both read "no existing vote"; one has
\* committed its insert and the other's insert was refused.
C2_Witness ==
    \E p, q \in Procs :
        /\ p # q
        /\ req[p].user = req[q].user /\ req[p].ballot = req[q].ballot
        /\ entry[p].held = 0 /\ entry[q].held = 0
        /\ cause[q] = "unique"
        /\ pc[p] = "idle" /\ resp[p].status = 200
        /\ Cardinality(VoteRows(req[p].user, req[p].ballot)) = 1

\* The two calls of a behaviour are by one user on one ballot for different
\* options, each was received while the user had no vote and nothing had been
\* committed (so the calls overlap), and the store did not fail either of
\* them for a reason of its own.
TwoFirstCasts ==
    /\ Quiescent
    /\ ncalls = 2
    /\ \A p \in Procs : req[p] # NoReq
    /\ \A p, q \in Procs : req[p].user = req[q].user /\ req[p].ballot = req[q].ballot
    /\ \E p, q \in Procs : req[p].item # req[q].item
    /\ \A p \in Procs :
        /\ req[p].ballot \in ActiveBallots
        /\ req[p].item \in ItemsOf(req[p].ballot)
        /\ entry[p] = NoEntry
        /\ cause[p] \in {"none", "unique"}

\* C3: after two concurrent first casts of one user on one ballot for different
\* options exactly one votes row exists for the pair, the option it points to
\* has gained exactly 1 and every other count is unchanged.
C3_ConcurrentFirstCasts ==
    TwoFirstCasts =>
        LET u == req[CHOOSE p \in Procs : TRUE].user
            b == req[CHOOSE p \in Procs : TRUE].ballot
        IN  /\ Cardinality(VoteRows(u, b)) = 1
            /\ Len(log) >= 1
            /\ \A o \in Items :
                   vote_count[o] = log[1].before[o] + (IF o = Held(u, b) THEN 1 ELSE 0)

\* Both calls read "no existing vote" and one insert was refused.
C3_Witness ==
    /\ TwoFirstCasts
    /\ \E p \in Procs : cause[p] = "unique"
    /\ \E p \in Procs : resp[p].status = 200

\* The committed casts of log are all by one user on one ballot.
OnePairLog ==
    /\ Len(log) >= 1
    /\ \A i \in 1..Len(log) : log[i].user = log[1].user /\ log[i].ballot = log[1].ballot

Perms(n) == {f \in [1..n -> 1..n] : \A i, j \in 1..n : i # j => f[i] # f[j]}

\* One cast run on its own: the count of the held option goes down, the vote
\* points at the new option, the count of the new option goes up.
SerialCast(st, item) ==
    [held |-> item,
     counts |-> [o \in Items |-> st.counts[o] - (IF o = st.held THEN 1 ELSE 0)
                                             + (IF o = item THEN 1 ELSE 0)]]

RECURSIVE SerialRun(_, _)
SerialRun(st, items) ==
    IF items = <<>> THEN st ELSE SerialRun(SerialCast(st, Head(items)), Tail(items))

\* C4: when all committed casts are by one user on one ballot, the final vote
\* and counts are those of running these casts one after another in some order.
C4_SerializedPerUserBallot ==
    (Quiescent /\ OnePairLog) =>
        \E f \in Perms(Len(log)) :
            LET r == SerialRun([held |-> log[1].held, counts |-> log[1].before],
                               [i \in 1..Len(log) |-> log[f[i]].item])
            IN  /\ Held(log[1].user, log[1].ballot) = r.held
                /\ vote_count = r.counts

\* C5: no committed vote_count is negative.
C5_CountsNonNegative == \A o \in Items : vote_count[o] >= 0

\* C6: no counter update is lost: every count is its starting value plus the
\* committed casts for the option minus the committed casts that left it.
C6_NoLostUpdate ==
    Len(log) >= 1 =>
        \A o \in Items :
            vote_count[o] = log[1].before[o]
                            + Cardinality({i \in 1..Len(log) : log[i].item = o})
                            - Cardinality({i \in 1..Len(log) : log[i].dec = o})

\* Two users' casts for the same option overlapped (the second was received
\* before the first committed) and both committed.
C6_Witness ==
    /\ Len(log) = 2
    /\ log[1].user # log[2].user
    /\ log[1].item = log[2].item
    /\ log[2].entry.commits = 0

\* C7: the commit of a cast by a user who holds no vote on the ballot adds
\* exactly one votes row, for the pair and the given option, raises that
\* option's count by 1, leaves every other count, and answers success.
C7_FirstVote ==
    [][\A p \in Procs :
          (/\ pc[p] = "commit" /\ pc'[p] = "idle" /\ cause'[p] = "none"
           /\ Held(req[p].user, req[p].ballot) = 0)
          => /\ resp'[p] = [status |-> 200, msg |-> "Vote recorded successfully"]
             /\ \E r \in votes' :
                   /\ r \notin votes /\ votes' = votes \cup {r}
                   /\ r.user_id = req[p].user /\ r.ballot_id = req[p].ballot
                   /\ r.ballot_item_id = req[p].item
             /\ \A v \in votes :
                   ~(v.user_id = req[p].user /\ v.ballot_id = req[p].ballot)
             /\ \A o \in Items :
                   vote_count'[o] = vote_count[o] + (IF o = req[p].item THEN 1 ELSE 0)
      ]_vars

\* A first cast has committed and was answered with success.
C7_Witness ==
    \E p \in Procs :
        /\ pc[p] = "idle" /\ resp[p].status = 200
        /\ Len(log) >= 1 /\ log[Len(log)].held = 0
        /\ log[Len(log)].user = req[p].user /\ log[Len(log)].item = req[p].item

\* The last two committed casts are a cast of A and then of a different B by
\* the same user on the same ballot.
SwitchedLast ==
    /\ Quiescent
    /\ Len(log) >= 2
    /\ log[Len(log) - 1].user = log[Len(log)].user
    /\ log[Len(log) - 1].ballot = log[Len(log)].ballot
    /\ log[Len(log) - 1].item # log[Len(log)].item

SwitchResult(a, b) ==
    /\ vote_count[a.item] = a.before[a.item]
    /\ vote_count[b.item] = b.before[b.item] + 1
    /\ VoteRows(b.user, b.ballot) # {}
    /\ \A v \in VoteRows(b.user, b.ballot) : v.ballot_item_id = b.item
    /\ Cardinality(VoteRows(b.user, b.ballot)) = 1

\* C8 as stated: after casting A and then B, A's count is its value before the
\* first cast, B's count is 1 above its value before the cast of B, and the
\* one votes row of the pair points at B.
C8_SwitchAsStated ==
    SwitchedLast => SwitchResult(log[Len(log) - 1], log[Len(log)])

\* C8 amended: the same, for a user who did not hold A before the first cast.
C8_SwitchAmended ==
    (SwitchedLast /\ log[Len(log) - 1].held # log[Len(log) - 1].item)
        => SwitchResult(log[Len(log) - 1], log[Len(log)])

\* A user with no vote cast A and then B.
C8_Witness ==
    /\ SwitchedLast
    /\ log[Len(log) - 1].held = 0

\* The committed state right after the i-th committed cast, when requests
\* are served one at a time.
CountsAfter(i) == IF i < Len(log) THEN log[i + 1].before ELSE vote_count
VotesAfter(i) == IF i < Len(log) THEN log[i + 1].votesBefore ELSE votes

\* C9: a successful cast for the option the user already holds leaves every
\* count and the votes rows as they were before it.
C9_RevoteIdempotent ==
    \A i \in 1..Len(log) :
        log[i].held = log[i].item
            => /\ CountsAfter(i) = log[i].before
               /\ VotesAfter(i) = log[i].votesBefore

\* A user's first cast was followed by a cast of the same option.
C9_Witness ==
    /\ Quiescent
    /\ Len(log) = 2
    /\ log[1].held = 0
    /\ log[2].user = log[1].user /\ log[2].ballot = log[1].ballot
    /\ log[2].held = log[2].item
    /\ log[2].item = log[1].item

\* C10: a statement that fails after the transaction has begun makes the call
\* answer an error and leaves the committed votes and counts as they were,
\* with none of the transaction's writes pending; the committed state changes
\* only at a successful commit.
C10_FailureRollsBack ==
    [][/\ \A p \in Procs :
            (InTx(p) /\ pc'[p] = "idle" /\ cause'[p] # "none")
            => /\ resp'[p].status = 500
               /\ votes' = votes /\ vote_count' = vote_count
               /\ txLocked'[p] = {} /\ txVote'[p] = NoWrite
       /\ (votes' # votes \/ vote_count' # vote_count)
            => \E p \in Procs : pc[p] = "commit" /\ pc'[p] = "idle" /\ cause'[p] = "none"
      ]_vars

\* A vote change failed at commit, after all its writes: the old vote stands.
C10_Witness ==
    \E p \in Procs :
        /\ pc[p] = "idle"
        /\ resp[p] = [status |-> 500, msg |-> "Error committing transaction"]
        /\ existingVoteID[p] # 0
        /\ existingBallotItemID[p] # req[p].item
        /\ Held(req[p].user, req[p].ballot) = existingBallotItemID[p]

\* A step in which p's handler returns.
Returns(p) == pc'[p] = "idle" /\ (pc[p] # "idle" \/ ncalls' # ncalls)

\* C11: a first cast whose INSERT meets a committed row of its (user, ballot)
\* fails: it answers an error, never success, and none of its writes (vote row
\* or count) is committed or left pending.
C11_ConflictFailsCleanly ==
    [][\A p \in Procs :
          (/\ pc[p] = "insert" /\ pc'[p] # "insert"
           /\ VoteRows(req[p].user, req[p].ballot) # {})
          => /\ pc'[p] = "idle"
             /\ resp'[p].status = 500
             /\ resp'[p].msg # ""
             /\ votes' = votes /\ vote_count' = vote_count /\ log' = log
             /\ txLocked'[p] = {} /\ txVote'[p] = NoWrite
      ]_vars

\* The loser of a collision has returned an error; the winner's row stands.
C11_Witness ==
    \E p \in Procs :
        /\ pc[p] = "idle" /\ cause[p] = "unique" /\ resp[p].status = 500
        /\ Len(log) >= 1
        /\ log[Len(log)].user = req[p].user /\ log[Len(log)].ballot = req[p].ballot
        /\ log[Len(log)].held = 0
        /\ Held(req[p].user, req[p].ballot) = log[Len(log)].item
        /\ vote_count[log[Len(log)].item] = log[Len(log)].before[log[Len(log)].item] + 1

ValidationResps ==
    {[status |-> 404, msg |-> "Ballot not found"],
     [status |-> 400, msg |-> "Ballot is not active"],
     [status |-> 404, msg |-> "Ballot item not found"],
     [status |-> 400, msg |-> "Ballot item does not belong to this ballot"]}

\* C12: a call that ends in a validation failure has begun no transaction and
\* written nothing: votes, counts and the id sequence are as before.
C12_ValidationWritesNothing ==
    [][\A p \in Procs :
          (Returns(p) /\ resp'[p] \in ValidationResps)
          => /\ pc[p] \in {"idle", "checkItem"}
             /\ votes' = votes /\ vote_count' = vote_count
             /\ nextVoteId' = nextVoteId /\ log' = log
             /\ txLocked[p] = {} /\ txVote[p] = NoWrite
             /\ txLocked'[p] = {} /\ txVote'[p] = NoWrite
      ]_vars

\* A request for ballot 9 (no such row) was answered NotFound after a cast
\* had committed.
C12_Witness ==
    \E p \in Procs :
        /\ pc[p] = "idle" /\ req[p].ballot = 9
        /\ resp[p] = [status |-> 404, msg |-> "Ballot not found"]
        /\ Len(log) >= 1

\* The first check that fails, in the order ballot exists, ballot active,
\* option exists, option belongs to the ballot (NoResp: none fails).
FirstFailedCheck(r) ==
    IF r.ballot \notin Ballots THEN [status |-> 404, msg |-> "Ballot not found"]
    ELSE IF r.ballot \notin ActiveBallots
         THEN [status |-> 400, msg |-> "Ballot is not active"]
    ELSE IF r.item \notin Items
         THEN [status |-> 404, msg |-> "Ballot item not found"]
    ELSE IF ItemBallot[r.item] # r.ballot
         THEN [status |-> 400, msg |-> "Ballot item does not belong to this ballot"]
    ELSE NoResp

\* C13: a finished call carries a validation answer exactly when one of the
\* four checks fails for its request (and the store did not fail first), the
\* answer is that of the first failing check, a call past the checks has a
\* request that passes all four, and the four answers are pairwise different.
C13_ValidationOrder ==
    /\ \A p \in Procs :
          /\ (pc[p] = "idle" /\ resp[p] \in ValidationResps)
                => resp[p] = FirstFailedCheck(req[p])
          /\ (pc[p] = "idle" /\ req[p] # NoReq /\ cause[p] # "storage"
              /\ FirstFailedCheck(req[p]) # NoResp)
                => resp[p] = FirstFailedCheck(req[p])
          /\ pc[p] \notin {"idle", "checkItem"} => FirstFailedCheck(req[p]) = NoResp
    /\ Cardinality(ValidationResps) = 4

\* A request naming a missing ballot and a missing option was answered with
\* the ballot's NotFound.
C13_Witness ==
    \E p \in Procs :
        /\ pc[p] = "idle" /\ req[p].ballot = 9 /\ req[p].item = 9
        /\ resp[p] = [status |-> 404, msg |-> "Ballot not found"]

\* The answers the handler gives when the store fails a statement.
StorageErrorResps ==
    {[status |-> 500, msg |-> ErrMsg(at)] :
        at \in {"idle", "checkItem", "begin", "select", "dec", "updVote",
                "insert", "inc", "commit"}}

\* C14: the answer to a call refused by the unique constraint (Conflict) is
\* none of the answers given for a failing store (StorageUnavailable) and none
\* of the validation answers.
C14_ConflictDistinguishable ==
    \A p \in Procs :
        (pc[p] = "idle" /\ cause[p] = "unique")
            => /\ resp[p] \notin StorageErrorResps
               /\ resp[p] \notin ValidationResps

\* C15: the option of every votes row is an option of the row's ballot.
C15_OptionOfVoteBallot ==
    \A v \in votes :
        v.ballot_item_id \in Items /\ ItemBallot[v.ballot_item_id] = v.ballot_id

\* A request with an option of another ballot was refused, and a cast on
\* ballot 2 has committed.
C15_Witness ==
    /\ \E p \in Procs :
          /\ pc[p] = "idle"
          /\ resp[p] = [status |-> 400, msg |-> "Ballot item does not belong to this ballot"]
    /\ \E v \in votes : v.ballot_id = 2

CommitsChange(p) ==
    /\ pc[p] = "commit" /\ pc'[p] = "idle" /\ cause'[p] = "none"
    /\ Held(req[p].user, req[p].ballot) # 0
    /\ Held(req[p].user, req[p].ballot) # req[p].item

VoteIds(rows) == {v.id : v \in rows}

InitialVotes == IF log = <<>> THEN votes ELSE log[1].votesBefore

\* The option of user u's most recent successful cast on ballot b among the
\* first n commits (0 when u never voted on b).
OptionAfter(u, b, n) ==
    LET I == {i \in 1..n : log[i].user = u /\ log[i].ballot = b}
        seeded == {v \in InitialVotes : v.user_id = u /\ v.ballot_id = b}
    IN  IF I # {} THEN log[CHOOSE i \in I : \A j \in I : j <= i].item
        ELSE IF seeded # {} THEN (CHOOSE v \in seeded : TRUE).ballot_item_id
        ELSE 0

\* A my-vote request that the storage served.
AnsweredMyVote(p) ==
    pc[p] = "idle" /\ req[p].op = "myvote" /\ cause[p] # "storage"

\* C18: GetUserVote(u, b) answers NotFound exactly when u has no committed
\* vote on b at the time of the read, and otherwise answers u's vote with
\* ballot b and the option of u's most recent successful cast on b, whatever
\* casts by whatever users came before or run meanwhile.
C18_MyVoteIsLatestCast ==
    \A p \in Procs : AnsweredMyVote(p) =>
        LET opt == OptionAfter(req[p].user, req[p].ballot, entry[p].commits)
        IN  /\ resp[p].status = 404 <=> opt = 0
            /\ resp[p].status = 404 =>
                  /\ resp[p].msg = "No vote found for this ballot"
                  /\ body[p] = NoBody
            /\ opt # 0 =>
                  /\ resp[p].status = 200
                  /\ body[p].vote.user_id = req[p].user
                  /\ body[p].vote.ballot_id = req[p].ballot
                  /\ body[p].vote.ballot_item_id = opt
                  /\ body[p].vote.option_id = opt

\* A user who switched option reads the vote back and sees the new option.
C18_Witness ==
    \E p \in Procs :
        /\ AnsweredMyVote(p) /\ resp[p].status = 200
        /\ \E i \in 1..entry[p].commits :
              /\ log[i].user = req[p].user /\ log[i].ballot = req[p].ballot
              /\ log[i].dec # 0
              /\ body[p].vote.ballot_item_id = log[i].item

\* ------------------------------------------------------------------ C19
\* A results request answered with data.
AnsweredResults(p) ==
    pc[p] = "idle" /\ req[p].op = "results" /\ resp[p].status = 200

\* C19: GetResults returns the ballot's options, each once, sorted by
\* vote_count descending, options of equal count by ascending option id.
C19_ResultsOrdered ==
    \A p \in Procs : AnsweredResults(p) =>
        LET r == body[p].results
        IN  /\ {r[i].id : i \in 1..Len(r)} = ItemsOf(req[p].ballot)
            /\ Len(r) = Cardinality(ItemsOf(req[p].ballot))
            /\ \A i \in 1..Len(r) :
                  r[i].ballot_id = req[p].ballot /\ r[i].option_id = r[i].id
            /\ \A i, j \in 1..Len(r) : i < j =>
                  \/ r[i].vote_count > r[j].vote_count
                  \/ /\ r[i].vote_count = r[j].vote_count
                     /\ r[i].id < r[j].id

\* Results with two options tied at one vote each.
C19_Witness ==
    \E p \in Procs :
        /\ AnsweredResults(p)
        /\ Len(body[p].results) = 2
        /\ body[p].results[1].vote_count = 1
        /\ body[p].results[2].vote_count = 1

\* ------------------------------------------------------------------ C20
\* The users with a committed vote on ballot b.
Voters(b) == {v.user_id : v \in {w \in votes : w.ballot_id = b}}

RECURSIVE SumOfCounts(_)
SumOfCounts(r) ==
    IF r = <<>> THEN 0 ELSE Head(r).vote_count + SumOfCounts(Tail(r))

\* C20: the total_votes of a GetResults(b) answer is the sum of the
\* vote_count values it returns and the number of distinct users with a
\* committed vote on b at the time of the query.
C20_TotalIsVoters ==
    [][\A p \in Procs :
          (pc[p] = "results" /\ pc'[p] = "idle" /\ resp'[p].status = 200)
          => /\ body'[p].total_votes = SumOfCounts(body'[p].results)
             /\ body'[p].total_votes = Cardinality(Voters(req[p].ballot))
             /\ body'[p].ballot_id = req[p].ballot]_vars

\* Two users hold votes on a ballot and one of them has switched to the
\* other's option: the results show that option with both votes, the
\* abandoned option with none, and a total of 2.
C20_Witness ==
    \E p \in Procs :
        /\ AnsweredResults(p)
        /\ body[p].total_votes = 2
        /\ Len(body[p].results) = 2
        /\ body[p].results[1].vote_count = 2
        /\ body[p].results[2].vote_count = 0
        /\ \E i \in 1..Len(log) :
              /\ log[i].ballot = req[p].ballot /\ log[i].dec # 0
              /\ log[i].item = body[p].results[1].id
              /\ log[i].dec = body[p].results[2].id

\* ------------------------------------------------------------------ C21
\* A results request that the storage served.
ServedResults(p) ==
    pc[p] = "idle" /\ req[p].op = "results" /\ cause[p] # "storage"

\* C21: GetResults answers NotFound exactly when the ballot does not exist;
\* for every existing ballot, active or not, with or without options or
\* votes, it answers a well-formed success (an empty list and total_votes 0
\* when the ballot has no options).
C21_ResultsForEveryBallot ==
    \A p \in Procs : ServedResults(p) =>
        /\ resp[p].status = 404 <=> req[p].ballot \notin Ballots
        /\ resp[p].status = 404 => resp[p].msg = "Ballot not found"
        /\ req[p].ballot \in Ballots =>
              /\ resp[p].status = 200
              /\ body[p].ballot_id = req[p].ballot
              /\ Len(body[p].results) = Cardinality(ItemsOf(req[p].ballot))
              /\ body[p].total_votes = SumOfCounts(body[p].results)
              /\ ItemsOf(req[p].ballot) = {} =>
                    body[p].results = <<>> /\ body[p].total_votes = 0

\* Results of a closed ballot that has options and votes.
C21_Witness ==
    \E p \in Procs :
        /\ ServedResults(p) /\ resp[p].status = 200
        /\ req[p].ballot \notin is_active
        /\ body[p].total_votes >= 1
        /\ Len(body[p].results) = 2

\* ------------------------------------------------------------------ C22
\* The stored tables and every transaction's pending writes are unchanged.
StoreUnchanged ==
    UNCHANGED <<votes, vote_count, nextVoteId, log, txLocked, txCount, txVote,
                is_active>>

\* C22: a cast or my-vote request without a verified caller identity is
\* answered 401 at once: the handler is never entered and nothing stored
\* changes.
C22_UnauthenticatedRejected ==
    [][\A p \in Procs, cred \in Credentials \ {"valid"}, u \in Users,
          b \in RouteBallots :
          (\/ \E bi \in ItemFields, oi \in ItemFields :
                 PostVote(p, cred, u, b, bi, oi)
           \/ GetMyVote(p, cred, u, b))
          => /\ resp'[p].status = 401
             /\ resp'[p].msg # ""
             /\ body'[p] = NoBody
             /\ pc'[p] = "idle"
             /\ req'[p].user = 0
             /\ StoreUnchanged]_vars

\* A cast with a token that does not verify was turned away while votes are
\* stored.
C22_Witness ==
    \E p \in Procs :
        /\ pc[p] = "idle" /\ req[p].op = "vote"
        /\ resp[p] = [status |-> 401, msg |-> "Invalid token"]
        /\ votes # {} /\ Len(log) >= 1

\* ------------------------------------------------------------------ C24
\* C24: the option a cast uses is the body's ballot_item_id whenever that is
\* non-zero, whatever option_id says; option_id is used only when
\* ballot_item_id is absent or zero; with both absent or zero the request
\* is answered 400 before any statement reaches the store.
C24_BallotItemIdFirst ==
    [][\A p \in Procs, u \in Users, b \in RouteBallots,
          bi \in ItemFields, oi \in ItemFields :
          PostVote(p, "valid", u, b, bi, oi)
          => /\ bi # 0 => req'[p].item = bi
             /\ (bi = 0 /\ oi # 0) => req'[p].item = oi
             /\ (bi = 0 /\ oi = 0) =>
                   /\ resp'[p] = [status |-> 400,
                                  msg |-> "option_id or ballot_item_id is required"]
                   /\ pc'[p] = "idle"
                   /\ StoreUnchanged
             /\ (bi # 0 \/ oi # 0) /\ pc'[p] = "idle" =>
                   resp'[p].msg # "option_id or ballot_item_id is required"]_vars

\* A cast that named two different options was committed for the one in
\* ballot_item_id.
C24_Witness ==
    \E p \in Procs :
        /\ pc[p] = "idle" /\ req[p].op = "vote" /\ resp[p].status = 200
        /\ req[p].ballot_item_id # 0 /\ req[p].option_id # 0
        /\ req[p].ballot_item_id # req[p].option_id
        /\ \E v \in VoteRows(req[p].user, req[p].ballot) :
              v.ballot_item_id = req[p].ballot_item_id

\* ------------------------------------------------------------------ C23
\* C23: no call blocks for ever: under any interleaving of concurrent casts,
\* two users switching in opposite directions between the same two options
\* included, every call that has started returns, with success or an error.
C23_EveryCallCompletes ==
    \A p \in Procs : (pc[p] # "idle") ~> (pc[p] = "idle")

\* Two switches in opposite directions met in a deadlock: one was aborted
\* with an error and the other was committed.
C23_Witness ==
    \E p, q \in Procs :
        /\ pc[p] = "idle" /\ cause[p] = "deadlock" /\ resp[p].status = 500
        /\ pc[q] = "idle" /\ resp[q].status = 200
        /\ req[p].user # req[q].user
        /\ req[p].item = existingBallotItemID[q]
        /\ req[q].item = existingBallotItemID[p]
        /\ req[p].item # req[q].item

\* ------------------------------------------------------------------ C25
\* The seed script is not running and every run of it reached its end.
SeedRunEnded == seed.pc = "idle" /\ seed.ok /\ seed.completed = seed.started

\* C25: running the seed script again is safe: after the second and every
\* later run the users, ballots, ballot_items and votes tables hold the rows
\* they held after the first run.
C25_SeedRerunSafe ==
    (SeedRunEnded /\ seed.completed >= 2) => seed.tables = seed.first

\* ------------------------------------------------------------------ C26
\* C26: after a run of the seed script every seeded option's vote_count is
\* the number of vote rows that reference the option.
C26_SeedCountsMatchVotes ==
    SeedRunEnded =>
        \A x \in seed.tables.ballot_items :
            x.vote_count =
                Cardinality({v \in seed.tables.votes : v.ballot_item_id = x.id})

\* ------------------------------------------------------------------ C27
\* C27: in every committed state, under any interleaving of casts, each
\* option's vote_count is the number of vote rows that chose the option.
C27_CountPerOption ==
    \A o \in Items :
        vote_count[o] = Cardinality({v \in votes : v.ballot_item_id = o})

\* ------------------------------------------------------------------ C28
\* The counts a results answer carries, per option of its ballot.
ReturnedCounts(p) ==
    [o \in ItemsOf(req[p].ballot) |->
        LET i == CHOOSE k \in 1..Len(body[p].results) : body[p].results[k].id = o
        IN  body[p].results[i].vote_count]

\* C28: while a re-vote or a switch has decremented a counter and not yet
\* committed, no GetResults or GetUserVote sees the intermediate value:
\* every read returns the counts, or the vote row, of a committed state.
C28_ReadsSeeCommitted ==
    \A p \in Procs :
        /\ AnsweredResults(p) =>
              \E n \in 0..Len(log) :
                  \A o \in ItemsOf(req[p].ballot) :
                      ReturnedCounts(p)[o] = CountsAfter(n)[o]
        /\ (AnsweredMyVote(p) /\ resp[p].status = 200) =>
              \E n \in 0..Len(log) : \E v \in VotesAfter(n) :
                  /\ v.id = body[p].vote.id
                  /\ v.user_id = body[p].vote.user_id
                  /\ v.ballot_id = body[p].vote.ballot_id
                  /\ v.ballot_item_id = body[p].vote.ballot_item_id

\* A results query ran while a re-vote of the same option had decremented
\* the counter and not yet committed; the re-vote is still uncommitted.
C28_Witness ==
    \E p, q \in Procs :
        /\ AnsweredResults(p) /\ cause[p] = "overlap"
        /\ pc[q] \in {"updVote", "inc", "commit"}
        /\ req[q].ballot = req[p].ballot
        /\ existingBallotItemID[q] = req[q].item
        /\ Len(log) = entry[q].commits
        /\ ReturnedCounts(p)[req[q].item] = vote_count[req[q].item]
        /\ vote_count[req[q].item] >= 1

\* ------------------------------------------------------------------ C29
\* C29: a cast whose transaction commits after its ballot was made inactive
\* changes neither votes nor counters: no deactivation between the active
\* check and the commit is missed.
C29_NoCommitAfterClose ==
    [][\A p \in Procs :
          (pc[p] = "commit" /\ pc'[p] = "idle" /\ req[p].ballot \notin is_active)
          => (votes' = votes /\ vote_count' = vote_count)]_vars

\* ------------------------------------------------------------------ C30
\* The vote rows other than user u's row for ballot b.
OtherRows(rows, u, b) == {v \in rows : ~(v.user_id = u /\ v.ballot_id = b)}

====
